---------------------------- MODULE Spec2Model ----------------------------
(***************************************************************************)
(* A model of eth-wallpaper-gen/main.py: the command line, load_image's    *)
(* crop, the Geometry Scaler, the in-place mirror remap of the four logo   *)
(* regions, the outline, the watermark and the save.                       *)
(*                                                                         *)
(* Numbers.  The program computes in binary floating point; the model      *)
(* computes the same quantities exactly, as integers over a common         *)
(* denominator.  A relative co-ordinate is an integer number of            *)
(* thousandths (0.183 is 183).  A scale factor is a pair <<sn, sd>>, the   *)
(* rational sn/sd.  An absolute co-ordinate is an integer number of        *)
(* 1/(Milli*sd) pixels.  Floating-point rounding error (about 1e-13 pixel) *)
(* is not modelled; the image sizes used below are sizes at which no       *)
(* floor, ceil, int or containment test of the program sits on such a      *)
(* boundary.                                                               *)
(*                                                                         *)
(* Collaborators.  Pillow and shapely are not part of the repository.      *)
(* Their documented behaviour is modelled where the program depends on it: *)
(* Image.crop rounds its box to integers, Polygon.contains is the strict   *)
(* interior, PixelAccess wraps a negative index once and raises IndexError *)
(* beyond that, ImageDraw.line rasterises with Bresenham's algorithm from  *)
(* truncated end points, Image.composite blends through the mask.          *)
(***************************************************************************)
EXTENDS Integers, Sequences, FiniteSets, TLC

\* ------------------------------------------------------------------------
\* Program constants and tables
\* ------------------------------------------------------------------------

\* The templates are written to three decimals: the unit of a relative
\* co-ordinate.
Milli == 1000

\* (0.5, 0.5), the centre the Geometry Scaler scales from.
Half == 500

Regions == {"top-left", "top-right", "bottom-left", "bottom-right"}

\* magics: relative polygon co-ordinates, in thousandths.
RelMagics ==
  [r \in Regions |->
     CASE r = "top-left"     -> << <<500, 183>>, <<393, 445>>, <<500, 538>>, <<500, 183>> >>
       [] r = "top-right"    -> << <<500, 183>>, <<604, 445>>, <<500, 538>>, <<500, 183>> >>
       [] r = "bottom-left"  -> << <<392, 472>>, <<500, 567>>, <<500, 697>>, <<392, 472>> >>
       [] r = "bottom-right" -> << <<605, 472>>, <<500, 567>>, <<500, 697>>, <<605, 472>> >>]

\* mirrors that pair a region with a wrong partner (mutants of the table).
mirrors_vertical ==
  [r \in Regions |->
     CASE r = "top-left"     -> "bottom-left"
       [] r = "top-right"    -> "bottom-left"
       [] r = "bottom-left"  -> "top-right"
       [] r = "bottom-right" -> "top-left"]

\* mirrors: mirror directions.
mirrors ==
  [r \in Regions |->
     CASE r = "top-left"     -> "bottom-right"
       [] r = "top-right"    -> "bottom-left"
       [] r = "bottom-left"  -> "top-right"
       [] r = "bottom-right" -> "top-left"]

\* The order in which `for _, magic in magics.items()` visits the regions:
\* the insertion order of the dict literal.
RegionOrder_swapped == <<"top-left", "bottom-left", "top-right", "bottom-right">>

RegionOrder == <<"top-left", "top-right", "bottom-left", "bottom-right">>

WATERMARK_RATIO == 40

\* WATERMARK_OPACITY = 0.3, in tenths.
WATERMARK_OPACITY == 3

\* fill_color of draw_outline, without its alpha of 255 (fully opaque).
OutlineGray == 180

\* The crop ratio m = 1920.00 / 1266.
RatioW == 1920

RatioH == 1266

\* ------------------------------------------------------------------------
\* Arithmetic
\* ------------------------------------------------------------------------

Abs(a) == IF a < 0 THEN -a ELSE a

Sign(a) == IF a < 0 THEN -1 ELSE IF a > 0 THEN 1 ELSE 0

\* a / b rounded towards minus infinity and towards plus infinity (b > 0).
FloorDiv(a, b) == a \div b

CeilDiv(a, b) == -FloorDiv(-a, b)

\* Python's int() of a / b: truncation towards zero (b > 0).
TruncDiv(a, b) == IF a >= 0 THEN a \div b ELSE -((-a) \div b)

\* Python's round() of a / b: to nearest, ties to the even integer (b > 0).
RoundDiv(a, b) ==
  LET q == FloorDiv(a, b)
      r == a - q * b
  IN  IF 2 * r < b THEN q
      ELSE IF 2 * r > b THEN q + 1
      ELSE IF q % 2 = 0 THEN q ELSE q + 1

\* The sign of a*b - c*d, computed in limbs so that no intermediate value
\* leaves the 32-bit integers (|a|, |b|, |c|, |d| < 2^22).
Limb == 2^11

SignProdDiff(a, b, c, d) ==
  LET s1 == Sign(a) * Sign(b)
      s2 == Sign(c) * Sign(d)
      a1 == Abs(a) \div Limb   a0 == Abs(a) % Limb
      b1 == Abs(b) \div Limb   b0 == Abs(b) % Limb
      c1 == Abs(c) \div Limb   c0 == Abs(c) % Limb
      d1 == Abs(d) \div Limb   d0 == Abs(d) % Limb
      hi == s1 * (a1 * b1) - s2 * (c1 * d1)
      mi == s1 * (a1 * b0 + a0 * b1) - s2 * (c1 * d0 + c0 * d1)
      lo == s1 * (a0 * b0) - s2 * (c0 * d0)
      m2 == mi + FloorDiv(lo, Limb)
      l3 == lo - FloorDiv(lo, Limb) * Limb
      h3 == hi + FloorDiv(m2, Limb)
      m3 == m2 - FloorDiv(m2, Limb) * Limb
  IN  IF h3 # 0 THEN Sign(h3) ELSE Sign(m3 + l3)

SetMin(S) == CHOOSE a \in S : \A b \in S : a <= b

SetMax(S) == CHOOSE a \in S : \A b \in S : a >= b


\* ------------------------------------------------------------------------
\* Geometry Scaler
\* ------------------------------------------------------------------------

\* The number of model units in one pixel, for a scale factor <<sn, sd>>.
Unit(eth_scale) == Milli * eth_scale[2]

\* A vertex at the centre has dist = 0: sin and cos divide by zero.
Degenerate(magic) == \E i \in 1..Len(magic) : magic[i] = <<Half, Half>>

\* scale without the "+ 0.5" that moves the scaled offset back to the centre.
scale_uncentred(magic, eth_scale, width, height) ==
  [i \in 1..Len(magic) |->
     << eth_scale[1] * (magic[i][1] - Half) * width,
        eth_scale[1] * (magic[i][2] - Half) * height >>]

\* scale(magic, scale, width, height).  With dist the distance of (x, y)
\* from (0.5, 0.5), cos = (x - 0.5) / dist and sin = (y - 0.5) / dist, the
\* scaled relative vertex is (dist*scale*cos + 0.5, dist*scale*sin + 0.5),
\* that is (scale*(x - 0.5) + 0.5, scale*(y - 0.5) + 0.5); it is then
\* multiplied by width and height.  In units of 1/(Milli*sd) pixel:
scale(magic, eth_scale, width, height) ==
  [i \in 1..Len(magic) |->
     << (eth_scale[1] * (magic[i][1] - Half) + Half * eth_scale[2]) * width,
        (eth_scale[1] * (magic[i][2] - Half) + Half * eth_scale[2]) * height >>]

\* ------------------------------------------------------------------------
\* Region Classifier
\* ------------------------------------------------------------------------

\* Polygon(magic).bounds
PolyMinX(poly) == SetMin({poly[i][1] : i \in 1..Len(poly)})

PolyMaxX(poly) == SetMax({poly[i][1] : i \in 1..Len(poly)})

PolyMinY(poly) == SetMin({poly[i][2] : i \in 1..Len(poly)})

PolyMaxY(poly) == SetMax({poly[i][2] : i \in 1..Len(poly)})

\* The side of the directed edge a -> b on which the point p lies.
Orient(a, b, p) ==
  SignProdDiff(b[1] - a[1], p[2] - a[2], b[2] - a[2], p[1] - a[1])

\* Polygon(magic).contains(Point(x, y)): the point lies in the interior of
\* the polygon, never on its boundary.  Every template is a triangle whose
\* fourth vertex repeats the first; u is the number of units in a pixel.
contains(poly, u, x, y) ==
  LET p  == <<x * u, y * u>>
      o1 == Orient(poly[1], poly[2], p)
      o2 == Orient(poly[2], poly[3], p)
      o3 == Orient(poly[3], poly[1], p)
  IN  \/ (o1 > 0 /\ o2 > 0 /\ o3 > 0)
      \/ (o1 < 0 /\ o2 < 0 /\ o3 < 0)

\* range(math.floor(min_x), math.ceil(max_x))
ColumnRange(poly, u) == FloorDiv(PolyMinX(poly), u) .. (CeilDiv(PolyMaxX(poly), u) - 1)

\* range(math.floor(min_y), math.ceil(max_y))
RowRange(poly, u) == FloorDiv(PolyMinY(poly), u) .. (CeilDiv(PolyMaxY(poly), u) - 1)

\* Whether (cx, cy) lies strictly on the side of the edge a -> b on which
\* the third vertex of a triangle of orientation s lies.
Pos(a, b, s, u, cx, cy) == s * Orient(a, b, <<cx * u, cy * u>>) > 0

\* The first row of lo..hi at which Pos holds, hi + 1 if there is none, for
\* an edge along which Pos, once true, stays true as the row grows.
RECURSIVE FirstPos(_, _, _, _, _, _, _)
FirstPos(a, b, s, u, cx, lo, hi) ==
  IF lo > hi THEN lo
  ELSE LET mid == (lo + hi) \div 2
       IN  IF Pos(a, b, s, u, cx, mid)
             THEN FirstPos(a, b, s, u, cx, lo, mid - 1)
             ELSE FirstPos(a, b, s, u, cx, mid + 1, hi)

\* The last row of lo..hi at which Pos holds, lo - 1 if there is none, for
\* an edge along which Pos, once false, stays false as the row grows.
RECURSIVE LastPos(_, _, _, _, _, _, _)
LastPos(a, b, s, u, cx, lo, hi) ==
  IF lo > hi THEN hi
  ELSE LET mid == (lo + hi) \div 2
       IN  IF Pos(a, b, s, u, cx, mid)
             THEN LastPos(a, b, s, u, cx, mid + 1, hi)
             ELSE LastPos(a, b, s, u, cx, lo, mid - 1)

\* The least and the greatest row of lo..hi that the edge a -> b admits.
\* The side test is linear in the row, with slope s * (b.x - a.x).
EdgeLow(a, b, s, u, cx, lo, hi) ==
  IF s * Sign(b[1] - a[1]) > 0 THEN FirstPos(a, b, s, u, cx, lo, hi)
  ELSE IF Pos(a, b, s, u, cx, lo) THEN lo ELSE hi + 1

EdgeHigh(a, b, s, u, cx, lo, hi) ==
  IF s * Sign(b[1] - a[1]) < 0 THEN LastPos(a, b, s, u, cx, lo, hi)
  ELSE IF Pos(a, b, s, u, cx, hi) THEN hi ELSE lo - 1

\* The rows y of column cx for which the test of the inner loop succeeds:
\* {y \in RowRange(poly, u) : contains(poly, u, cx, y)}.  The interior of a
\* triangle meets a column in an interval of rows, which is found here by
\* bisection on the three side tests of contains instead of a scan.
ColumnRows(poly, u, cx) ==
  LET lo == FloorDiv(PolyMinY(poly), u)
      hi == CeilDiv(PolyMaxY(poly), u) - 1
      s  == Orient(poly[1], poly[2], poly[3])
  IN  IF s = 0 \/ lo > hi THEN {}
      ELSE SetMax({EdgeLow(poly[1], poly[2], s, u, cx, lo, hi),
                   EdgeLow(poly[2], poly[3], s, u, cx, lo, hi),
                   EdgeLow(poly[3], poly[1], s, u, cx, lo, hi)})
           ..
           SetMin({EdgeHigh(poly[1], poly[2], s, u, cx, lo, hi),
                   EdgeHigh(poly[2], poly[3], s, u, cx, lo, hi),
                   EdgeHigh(poly[3], poly[1], s, u, cx, lo, hi)})

\* ------------------------------------------------------------------------
\* Pixel Remapper
\* ------------------------------------------------------------------------

\* limit that rounds to nearest instead of truncating.
limit_round(x) == IF 13 * x >= 2550 THEN 255 ELSE (13 * x + 5) \div 10

\* limit = lambda x: int(min(x * 1.3, 255))
limit(x) == IF 13 * x >= 2550 THEN 255 ELSE (13 * x) \div 10

\* filter without the brightening.
filter_noboost(v) == v

\* filter(v): limit applied to every channel of the pixel.
filter(v) == [i \in 1..Len(v) |-> limit(v[i])]

\* x_trans, y_trans = int(other[0][0] - magic[0][0]), int(other[0][1] - magic[0][1])
Trans(magic, other, u) ==
  << TruncDiv(other[1][1] - magic[1][1], u), TruncDiv(other[1][2] - magic[1][2], u) >>

\* PixelAccess: a negative index is taken from the far edge, once.
WrapIndex(i, n) == IF i < 0 THEN i + n ELSE i

\* PixelAccess raises IndexError unless the wrapped index is in 0..n-1.
IndexOk(i, n) == i >= -n /\ i < n

InRange(i, n) == i >= 0 /\ i < n


\* ------------------------------------------------------------------------
\* State
\* ------------------------------------------------------------------------

VARIABLES
  argc,         \* len(sys.argv)
  scale_arg,    \* sys.argv[3] read as a number <<sn, sd>>, when it is given
  file,         \* the input path: [exists, decodable, size, image]
  writable,     \* whether the output path can be written
  order,        \* the order in which the loop of main visits the regions
  pc,           \* where the run is
  stdout,       \* what has been printed
  exit_code,    \* the exit status; -1 while the process runs
  events,       \* the file accesses and processing steps so far, in order
  box,          \* the crop box of load_image, (left, upper, right, lower)
  width,        \* im.size[0]
  height,       \* im.size[1]
  eth_scale,    \* eth_scale of main
  magics,       \* the global magics: relative, then absolute
  pixels,       \* the image buffer: the pixels written so far, by column
  ri,           \* the position in order of the region being processed
  x,            \* the column of the outer loop
  done,         \* done of main
  mul,          \* mul of main
  stale,        \* reads of a pixel that an earlier region had remapped
  oob,          \* whether a pixel access left the image
  composite,    \* the image add_watermark returns
  output,       \* the saved file
  call,         \* a direct call of one function: its name and arguments
  ret           \* what the call returned

vars == << argc, scale_arg, file, writable, order, pc, stdout, exit_code,
           events, box, width, height, eth_scale, magics, pixels, ri, x,
           done, mul, stale, oob, composite, output, call, ret >>

\* The image buffer is held as the image load_image returned plus what the
\* run has written over it.  What has been written is kept by column, and a
\* column as a set of runs <<lo, hi, v>>: the rows lo..hi of the column hold
\* the pixel v.  The runs of a column are disjoint.
NoPixels == << >>

\* The pixel of the input file at (px, py): a uniform mid-gray image, or a
\* two-way colour ramp.
InputPixel(px, py) ==
  IF file.image = "gray"
    THEN <<128, 128, 128>>
    ELSE << (7 * px + 3 * py) % 256, (5 * px + 11 * py + 40) % 256, (px + py) % 256 >>

\* The pixel (px, py) of the image load_image returns: the input pixel at
\* the same place of the crop box.
LoadedPixel(px, py) == InputPixel(px + box[1], py + box[2])

\* The runs of column c of buf.
Column(buf, c) == IF c \in DOMAIN buf THEN buf[c] ELSE {}

\* Whether the run s holds row d.
Covers(s, d) == s[1] <= d /\ d <= s[2]

\* pixels[px, py] of an image whose column px has the runs col.
ReadColumn(col, px, py) ==
  IF \E s \in col : Covers(s, py)
    THEN (CHOOSE s \in col : Covers(s, py))[3]
    ELSE LoadedPixel(px, py)

\* pixels[px, py] of an image whose written pixels are buf.
Read(buf, px, py) == ReadColumn(Column(buf, px), px, py)

\* The runs that hold the pixels f, a function from rows to pixels: one run
\* for every maximal stretch of consecutive rows with the same pixel.
Runs(f) ==
  LET rows   == DOMAIN f
      starts == {d \in rows : (d - 1) \notin rows \/ f[d - 1] # f[d]}
      ends   == {d \in rows : (d + 1) \notin rows \/ f[d + 1] # f[d]}
  IN  {<<a, CHOOSE e \in ends : e >= a /\ \A e2 \in ends : e2 >= a => e <= e2, f[a]>> :
         a \in starts}

\* The runs col without the rows gone.
Without(col, gone) ==
  {s \in col : \A d \in gone : ~Covers(s, d)}
    \cup UNION {Runs([d \in (s[1]..s[2]) \ gone |-> s[3]]) :
                  s \in {s2 \in col : \E d \in gone : Covers(s2, d)}}

\* The runs of a column with runs col after the pixels f are written to it.
Written(col, f) == Without(col, DOMAIN f) \cup Runs(f)

\* buf with the pixels f written into column c.
WriteColumn(buf, c, f) ==
  IF c \in DOMAIN buf
    THEN [buf EXCEPT ![c] = Written(@, f)]
    ELSE (c :> Runs(f)) @@ buf

\* Whether two buffers hold the same image.
SameImage(buf1, buf2) ==
  \A c \in (DOMAIN buf1) \cup (DOMAIN buf2) :
    \A s \in Column(buf1, c) \cup Column(buf2, c) :
      \A d \in s[1]..s[2] : Read(buf1, c, d) = Read(buf2, c, d)


\* ------------------------------------------------------------------------
\* load_image
\* ------------------------------------------------------------------------

\* The box load_image hands to im.crop, rounded as Image.crop rounds it.
\* With m = 1920 / 1266: if width / height > m, diff = width - m * height
\* and the box is (diff / 2, 0, m * height, height); otherwise
\* diff = height - width / m and the box is (0, diff / 2, width, width / m).
CropBox(w, h) ==
  IF w * RatioH > h * RatioW
    THEN << RoundDiv(w * RatioH - RatioW * h, 2 * RatioH), 0,
            RoundDiv(RatioW * h, RatioH), h >>
    ELSE << 0, RoundDiv(h * RatioW - w * RatioH, 2 * RatioW),
            w, RoundDiv(w * RatioH, RatioW) >>

\* ------------------------------------------------------------------------
\* The remap of one column (one iteration of `for x in range(...)`)
\* ------------------------------------------------------------------------

\* x_trans and y_trans of region r.
Offset(r) == Trans(magics[r], magics[mirrors[r]], Unit(eth_scale))

\* In what follows t is the offset of the region, cx the column x of the
\* outer loop and rows the rows y of that column that the polygon contains.

\* Whether an access of the column raises IndexError.
ColumnFails(t, cx, rows) ==
  /\ rows # {}
  /\ \/ ~IndexOk(cx + t[1], width)
     \/ ~IndexOk(cx, width)
     \/ \E cy \in rows : ~IndexOk(cy + t[2], height) \/ ~IndexOk(cy, height)

\* Whether an access of the column is outside the image (it then wraps
\* around or raises IndexError).
ColumnLeavesImage(t, cx, rows) ==
  /\ rows # {}
  /\ \/ ~InRange(cx + t[1], width)
     \/ ~InRange(cx, width)
     \/ \E cy \in rows : ~InRange(cy + t[2], height) \/ ~InRange(cy, height)

\* The value `pixels[x, y] = filter(v)` stores at row cy of the column; src
\* is the source column, x + x_trans, as the buffer holds it when the column
\* is entered.  The rows of a column are written in increasing order, each
\* from the buffer as it is at that moment: when the source column is the
\* column itself, a source pixel that an earlier row has written is read as
\* written.
RECURSIVE ColumnValue(_, _, _, _, _)
ColumnValue(src, t, cx, rows, cy) ==
  LET sx    == WrapIndex(cx + t[1], width)
      sy    == WrapIndex(cy + t[2], height)
      prior == {c2 \in rows : c2 < cy /\ WrapIndex(c2, height) = sy}
  IN  filter(IF sx # WrapIndex(cx, width) \/ prior = {}
               THEN ReadColumn(src, sx, sy)
               ELSE ColumnValue(src, t, cx, rows, SetMax(prior)))

\* The row of the column whose write to the row d of the image is the last.
LastWriter(rows, d) == IF d \in rows THEN d ELSE d - height

\* The buffer after the inner loop has run over the column.
RemapColumn(buf, t, cx, rows) ==
  LET sx   == WrapIndex(cx + t[1], width)
      src  == Column(buf, sx)
      dest == {WrapIndex(cy, height) : cy \in rows}
      col  == IF sx # WrapIndex(cx, width)
                THEN [d \in dest |->
                        filter(ReadColumn(src, sx,
                                 WrapIndex(LastWriter(rows, d) + t[2], height)))]
                ELSE [d \in dest |-> ColumnValue(src, t, cx, rows, LastWriter(rows, d))]
  IN  IF rows = {} THEN buf ELSE WriteColumn(buf, WrapIndex(cx, width), col)

\* Whether the remap of the polygon poly writes the pixel (qx, qy) of the
\* image: the pixel itself is in the polygon, or a pixel of the polygon with
\* a negative index wraps around to it.
RemappedBy(poly, u, qx, qy) ==
  \/ contains(poly, u, qx, qy)
  \/ PolyMinX(poly) < 0 /\ contains(poly, u, qx - width, qy)
  \/ PolyMinY(poly) < 0 /\ contains(poly, u, qx, qy - height)
  \/ PolyMinX(poly) < 0 /\ PolyMinY(poly) < 0 /\ contains(poly, u, qx - width, qy - height)

\* The rows of the column whose source pixel the remap of poly has written.
\* The test is made for the source rows between lo and hi + height only (lo
\* and hi the bounds of the polygon's rows): RemappedBy holds of no other.
StaleRows(poly, u, t, cx, rows) ==
  LET sx == WrapIndex(cx + t[1], width)
      lo == FloorDiv(PolyMinY(poly), u)
      hi == CeilDiv(PolyMaxY(poly), u)
  IN  {c \in rows :
         /\ WrapIndex(c + t[2], height) >= lo
         /\ WrapIndex(c + t[2], height) <= hi + height
         /\ RemappedBy(poly, u, sx, WrapIndex(c + t[2], height))}

\* The pixels of the column, a column of the k-th region of the run, whose
\* source pixel an earlier region of the run has remapped.
StaleReads(t, cx, rows, k) ==
  {<<cx, cy>> : cy \in
     UNION {StaleRows(magics[order[j]], Unit(eth_scale), t, cx, rows) : j \in 1..(k - 1)}}

\* ------------------------------------------------------------------------
\* draw_outline
\* ------------------------------------------------------------------------

\* The pixels ImageDraw.line plots from (x0, y0) to (x1, y1), both ends
\* included: Bresenham's algorithm along the longer axis.
LinePoints(x0, y0, x1, y1) ==
  LET dx == Abs(x1 - x0)
      dy == Abs(y1 - y0)
      xs == IF x1 < x0 THEN -1 ELSE 1
      ys == IF y1 < y0 THEN -1 ELSE 1
      n  == IF dx > dy THEN dx ELSE dy
  IN  { IF dx = 0 THEN <<x0, y0 + ys * i>>
        ELSE IF dy = 0 THEN <<x0 + xs * i, y0>>
        ELSE IF dx > dy THEN <<x0 + xs * i, y0 + ys * ((2 * dy * i + dx) \div (2 * dx))>>
        ELSE <<x0 + xs * ((2 * dx * i + dy) \div (2 * dy)), y0 + ys * i>> : i \in 0..n }

\* The pixels of the image that draw_outline paints for the polygon magic:
\* for i in range(len(magic)), the line from magic[i] to magic[(i + 1) % 4],
\* its end points truncated to integers.
OutlinePoints(magic, u) ==
  LET seg(i) == LET j == (i % Len(magic)) + 1
                IN  LinePoints(TruncDiv(magic[i][1], u), TruncDiv(magic[i][2], u),
                               TruncDiv(magic[j][1], u), TruncDiv(magic[j][2], u))
  IN  {p \in UNION {seg(i) : i \in 1..Len(magic)} :
         InRange(p[1], width) /\ InRange(p[2], height)}

\* fill_color = (180, 180, 180, 255) drawn on an RGB image.
OutlinePixel == <<OutlineGray, OutlineGray, OutlineGray>>

\* buf with every pixel of pts set to v.
WritePoints(buf, pts, v) ==
  LET cols == {p[1] : p \in pts}
  IN  [c \in (DOMAIN buf) \cup cols |->
         IF c \in cols
           THEN Written(Column(buf, c), [d \in {p[2] : p \in {q \in pts : q[1] = c}} |-> v])
           ELSE buf[c]]

\* The buffer after draw_outline(im, magic).
draw_outline(buf, magic, u) == WritePoints(buf, OutlinePoints(magic, u), OutlinePixel)

\* ------------------------------------------------------------------------
\* add_watermark
\* ------------------------------------------------------------------------

\* size = int(watermark.size[0] / WATERMARK_RATIO)
FontSize(w) == w \div WATERMARK_RATIO

\* n_font.getsize(WATERMARK): the font file is not part of the repository;
\* the fifteen glyphs are taken half an em wide and one em high.
TextSize(w) == << (15 * FontSize(w)) \div 2, FontSize(w) >>

\* The box <<left, top, right, bottom>> of the text, drawn at
\* (width - n_width * 1.2, height - n_height * 1.2).  The glyph mask is
\* abstracted to the whole box.
TextBox(w, h) ==
  LET left == FloorDiv(10 * w - 12 * TextSize(w)[1], 10)
      top  == FloorDiv(10 * h - 12 * TextSize(w)[2], 10)
  IN  <<left, top, left + TextSize(w)[1] - 1, top + TextSize(w)[2] - 1>>

\* The columns and the rows of the box that are in the image.
TextColumns(w, h) == {c \in TextBox(w, h)[1] .. TextBox(w, h)[3] : InRange(c, w)}

TextRows(w, h) == {d \in TextBox(w, h)[2] .. TextBox(w, h)[4] : InRange(d, h)}

\* One channel of Image.composite(watermark, img, watermark): white text
\* whose alpha ImageEnhance.Brightness has scaled by WATERMARK_OPACITY.
Blend(v) ==
  LET alpha == (255 * WATERMARK_OPACITY) \div 10
  IN  (255 * alpha + v * (255 - alpha)) \div 255

\* The image add_watermark(img) returns: img with the text blended in.
add_watermark(buf, w, h) ==
  LET cols == TextColumns(w, h)
      rows == TextRows(w, h)
  IN  [c \in (DOMAIN buf) \cup cols |->
         IF c \in cols
           THEN Written(Column(buf, c),
                        [d \in rows |->
                           LET v == Read(buf, c, d) IN [i \in 1..Len(v) |-> Blend(v[i])]])
           ELSE buf[c]]

\* ------------------------------------------------------------------------
\* The runs
\* ------------------------------------------------------------------------

\* The longest command line tried: the program name and three arguments.
MaxArgc == 4

\* Scale factors tried for ETH_SCALE: 1/2, 1, 3/2 and 2.
Scales == {<<1, 2>>, <<1, 1>>, <<3, 2>>, <<2, 1>>}

\* Input image sizes tried: one that the crop keeps, a wider and a taller one.
SmallSizes == {<<48, 32>>, <<72, 40>>, <<48, 40>>}

\* The size of the end-to-end scenario.
FullSize == <<1920, 1266>>

Images == {"gray", "ramp"}

\* The command line and the files of a process, and its state before its
\* first statement.
Process(sizes, scales, images, orders, argcs, faults) ==
  /\ argc \in argcs
  /\ scale_arg \in (IF argc >= 4 THEN scales ELSE {<<1, 1>>})
  /\ file \in [exists : BOOLEAN, decodable : faults, size : sizes, image : images]
  /\ writable \in faults
  /\ order \in orders
  /\ stdout = << >>
  /\ exit_code = -1
  /\ events = << >>
  /\ box = <<0, 0, 0, 0>>
  /\ width = 0
  /\ height = 0
  /\ eth_scale = <<1, 1>>
  /\ magics = RelMagics
  /\ pixels = NoPixels
  /\ ri = 0
  /\ x = 0
  /\ done = 0
  /\ mul = 1
  /\ stale = {}
  /\ oob = FALSE
  /\ composite = NoPixels
  /\ output = NoPixels

\* The state of a process that has just been started.
Start(sizes, scales, images, orders, argcs, faults) ==
  /\ Process(sizes, scales, images, orders, argcs, faults)
  /\ pc = "start"
  /\ call = << >>
  /\ ret = << >>

Init == Start(SmallSizes, Scales, Images, {RegionOrder}, 1..MaxArgc, BOOLEAN)

\* if len(sys.argv) < 3: print the usage, sys.exit(0)
Usage ==
  /\ pc = "start"
  /\ argc < 3
  /\ stdout' = << <<"print", "error: missing arguments">>,
                  <<"print", "usage: ./main.py INPUT_IMAGE OUTPUT_IMAGE [ETH_SCALE]">> >>
  /\ exit_code' = 0
  /\ pc' = "exited"
  /\ UNCHANGED << argc, scale_arg, file, writable, order, events, box, width,
                  height, eth_scale, magics, pixels, ri, x, done, mul, stale,
                  oob, composite, output, call, ret >>

\* The start of a program without the os.path.isfile test: main is entered.
MissingInput_unchecked ==
  /\ pc = "start"
  /\ argc >= 3
  /\ ~file.exists
  /\ eth_scale' = IF argc = 3 THEN <<1, 1>> ELSE scale_arg
  /\ pc' = "load"
  /\ UNCHANGED << argc, scale_arg, file, writable, order, stdout, exit_code,
                  events, box, width, height, magics, pixels, ri, x, done, mul,
                  stale, oob, composite, output, call, ret >>

\* if not os.path.isfile(sys.argv[1]): print the error, sys.exit(0)
MissingInput ==
  /\ pc = "start"
  /\ argc >= 3
  /\ ~file.exists
  /\ events' = Append(events, <<"isfile", "input">>)
  /\ stdout' = << <<"print", "error: cannot open input file">> >>
  /\ exit_code' = 0
  /\ pc' = "exited"
  /\ UNCHANGED << argc, scale_arg, file, writable, order, box, width, height,
                  eth_scale, magics, pixels, ri, x, done, mul, stale, oob,
                  composite, output, call, ret >>

\* main(sys.argv[1], sys.argv[2]) or main(..., float(sys.argv[3]))
EnterMain ==
  /\ pc = "start"
  /\ argc >= 3
  /\ file.exists
  /\ events' = Append(events, <<"isfile", "input">>)
  /\ eth_scale' = IF argc = 3 THEN <<1, 1>> ELSE scale_arg
  /\ pc' = "load"
  /\ UNCHANGED << argc, scale_arg, file, writable, order, stdout, exit_code,
                  box, width, height, magics, pixels, ri, x, done, mul, stale,
                  oob, composite, output, call, ret >>

\* im = load_image(input_filename); pixels = im.load(); width, height = im.size
LoadImage ==
  /\ pc = "load"
  /\ events' = Append(events, <<"open", "input">>)
  /\ IF file.decodable
       THEN LET b == CropBox(file.size[1], file.size[2])
            IN  /\ box' = b
                /\ width' = b[3] - b[1]
                /\ height' = b[4] - b[2]
                /\ pc' = IF b[3] > b[1] /\ b[4] > b[2] THEN "scale" ELSE "failed"
                /\ exit_code' = IF b[3] > b[1] /\ b[4] > b[2] THEN exit_code ELSE 1
       ELSE /\ pc' = "failed"
            /\ exit_code' = 1
            /\ UNCHANGED << box, width, height >>
  /\ UNCHANGED << argc, scale_arg, file, writable, order, stdout, eth_scale,
                  magics, pixels, ri, x, done, mul, stale, oob, composite,
                  output, call, ret >>

\* The first column of the outer loop for the polygon poly.
FirstColumn(poly, u) == FloorDiv(PolyMinX(poly), u)

\* Where the run goes when it turns to the polygon poly: into the outer
\* loop, or past it when range(...) is empty.
LoopEntry(poly, u) == IF ColumnRange(poly, u) = {} THEN "outline" ELSE "remap"

\* for _, magic in magics.items(): magics[_] = scale(...); done, mul = 0, 1
ScaleMagics ==
  /\ pc = "scale"
  /\ IF \E r \in Regions : Degenerate(magics[r])
       THEN /\ pc' = "failed"
            /\ exit_code' = 1
            /\ UNCHANGED << magics, ri, x >>
       ELSE LET scaled == [r \in Regions |-> scale(magics[r], eth_scale, width, height)]
            IN  /\ magics' = scaled
                /\ ri' = 1
                /\ x' = FirstColumn(scaled[order[1]], Unit(eth_scale))
                /\ pc' = LoopEntry(scaled[order[1]], Unit(eth_scale))
                /\ UNCHANGED exit_code
  /\ done' = 0
  /\ mul' = 1
  /\ UNCHANGED << argc, scale_arg, file, writable, order, stdout, events, box,
                  width, height, eth_scale, pixels, stale, oob, composite,
                  output, call, ret >>

\* todo = math.ceil(max_x) - math.floor(min_x)
Todo(poly, u) == CeilDiv(PolyMaxX(poly), u) - FloorDiv(PolyMinX(poly), u)

\* events with e appended, unless e is already its last entry.
Logged(log, e) == IF Len(log) > 0 /\ log[Len(log)] = e THEN log ELSE Append(log, e)

\* One iteration of `for x in range(math.floor(min_x), math.ceil(max_x))`:
\* the inner loop over y, then the progress report.
Remap ==
  /\ pc = "remap"
  /\ LET r    == order[ri]
         u    == Unit(eth_scale)
         t    == Offset(r)
         rows == ColumnRows(magics[r], u, x)
     IN  IF ColumnFails(t, x, rows)
           THEN /\ pc' = "failed"
                /\ exit_code' = 1
                /\ oob' = TRUE
                /\ events' = Logged(events, <<"remap", r>>)
                /\ UNCHANGED << pixels, stale, x, done, mul, stdout >>
           ELSE /\ pixels' = RemapColumn(pixels, t, x, rows)
                /\ stale' = stale \cup StaleReads(t, x, rows, ri)
                /\ oob' = (oob \/ ColumnLeavesImage(t, x, rows))
                /\ events' = Logged(events, <<"remap", r>>)
                /\ done' = done + 1
                /\ IF done + 1 = (Todo(magics[r], u) * mul * 4) \div 10
                     THEN /\ stdout' = Append(stdout, <<"progress", mul * 10>>)
                          /\ mul' = mul + 1
                     ELSE UNCHANGED << stdout, mul >>
                /\ x' = x + 1
                /\ pc' = IF x + 1 \in ColumnRange(magics[r], u) THEN "remap" ELSE "outline"
                /\ UNCHANGED exit_code
  /\ UNCHANGED << argc, scale_arg, file, writable, order, box, width, height,
                  eth_scale, magics, ri, composite, output, call, ret >>

\* draw_outline(im, magic), and the step of the loop to the next region.
DrawOutline ==
  /\ pc = "outline"
  /\ LET r == order[ri]
         u == Unit(eth_scale)
     IN  /\ pixels' = draw_outline(pixels, magics[r], u)
         /\ events' = Append(events, <<"outline", r>>)
         /\ IF ri = Len(order)
              THEN /\ pc' = "watermark"
                   /\ UNCHANGED << ri, x >>
              ELSE /\ ri' = ri + 1
                   /\ x' = FirstColumn(magics[order[ri + 1]], u)
                   /\ pc' = LoopEntry(magics[order[ri + 1]], u)
  /\ UNCHANGED << argc, scale_arg, file, writable, order, stdout, exit_code,
                  box, width, height, eth_scale, magics, done, mul, stale, oob,
                  composite, output, call, ret >>

\* print(""); add_watermark(im)
AddWatermark ==
  /\ pc = "watermark"
  /\ stdout' = Append(stdout, <<"print", "">>)
  /\ events' = Append(events, <<"watermark", "font">>)
  /\ IF FontSize(width) < 1
       THEN /\ pc' = "failed"
            /\ exit_code' = 1
            /\ UNCHANGED composite
       ELSE /\ composite' = add_watermark(pixels, width, height)
            /\ pc' = "save"
            /\ UNCHANGED exit_code
  /\ UNCHANGED << argc, scale_arg, file, writable, order, box, width, height,
                  eth_scale, magics, pixels, ri, x, done, mul, stale, oob,
                  output, call, ret >>

\* .save(output_filename)
Save ==
  /\ pc = "save"
  /\ events' = Append(events, <<"save", "output">>)
  /\ IF writable
       THEN /\ output' = composite
            /\ pc' = "done"
            /\ exit_code' = 0
       ELSE /\ pc' = "failed"
            /\ exit_code' = 1
            /\ UNCHANGED output
  /\ UNCHANGED << argc, scale_arg, file, writable, order, stdout, box, width,
                  height, eth_scale, magics, pixels, ri, x, done, mul, stale,
                  oob, composite, call, ret >>

Next ==
  \/ Usage
  \/ MissingInput
  \/ EnterMain
  \/ LoadImage
  \/ ScaleMagics
  \/ Remap
  \/ DrawOutline
  \/ AddWatermark
  \/ Save

Spec == Init /\ [][Next]_vars

\* The end-to-end scenario: a 1920 x 1266 mid-gray image at the default scale.
InitFull == Start({FullSize}, {<<1, 1>>}, {"gray"}, {RegionOrder}, 1..3, {TRUE})

SpecFull == InitFull /\ [][Next]_vars

\* ------------------------------------------------------------------------
\* The loop of main as a function of the order of the regions
\* ------------------------------------------------------------------------

\* buf after the iterations of `for x in range(...)` for the columns c..last
\* of region r.
RECURSIVE RemapColumns(_, _, _, _)
RemapColumns(buf, r, c, last) ==
  IF c > last THEN buf
  ELSE RemapColumns(RemapColumn(buf, Offset(r), c,
                                ColumnRows(magics[r], Unit(eth_scale), c)),
                    r, c + 1, last)

\* buf after `for _, magic in magics.items()` has handled the regions
\* ord[k], ord[k + 1], ...: the remap of a region, then its outline.
RECURSIVE RemapLoop(_, _, _)
RemapLoop(buf, ord, k) ==
  IF k > Len(ord) THEN buf
  ELSE LET r == ord[k]
           u == Unit(eth_scale)
       IN  RemapLoop(draw_outline(RemapColumns(buf, r, FirstColumn(magics[r], u),
                                               CeilDiv(PolyMaxX(magics[r]), u) - 1),
                                  magics[r], u),
                     ord, k + 1)

\* The orders in which the four regions can be visited.
Orders == {o \in [1..4 -> Regions] : \A a, b \in 1..4 : a # b => o[a] # o[b]}

InitOrder ==
  Start({<<48, 32>>, <<72, 40>>}, {<<1, 1>>}, Images, Orders, 1..MaxArgc, {TRUE})

SpecOrder == InitOrder /\ [][Next]_vars

\* ------------------------------------------------------------------------
\* Direct calls of filter and of scale
\* ------------------------------------------------------------------------

\* The channel values of a pixel.
MaxChannel == 255

\* Image sizes passed to scale.
GeomSizes == {FullSize, <<48, 32>>, <<55, 40>>, <<1380, 1266>>}

FilterCalls ==
  {<<"filter", <<a, b, c>> >> : a \in 0..MaxChannel, b \in {0, 196, MaxChannel}, c \in {5, 197}}

ScaleCalls ==
  {<<"scale", r, s, size>> : r \in Regions, s \in Scales, size \in GeomSizes}

InitCalls ==
  /\ Process({FullSize}, {<<1, 1>>}, {"gray"}, {RegionOrder}, {1}, {TRUE})
  /\ file.exists
  /\ pc = "call"
  /\ call \in FilterCalls \cup ScaleCalls
  /\ ret = << >>

\* filter(v)
CallFilter ==
  /\ pc = "call"
  /\ call[1] = "filter"
  /\ ret' = filter(call[2])
  /\ pc' = "returned"
  /\ UNCHANGED << argc, scale_arg, file, writable, order, stdout, exit_code,
                  events, box, width, height, eth_scale, magics, pixels, ri, x,
                  done, mul, stale, oob, composite, output, call >>

\* scale(magic, scale, width, height)
CallScale ==
  /\ pc = "call"
  /\ call[1] = "scale"
  /\ ret' = scale(RelMagics[call[2]], call[3], call[4][1], call[4][2])
  /\ pc' = "returned"
  /\ UNCHANGED << argc, scale_arg, file, writable, order, stdout, exit_code,
                  events, box, width, height, eth_scale, magics, pixels, ri, x,
                  done, mul, stale, oob, composite, output, call >>

NextCalls == CallFilter \/ CallScale

SpecCalls == InitCalls /\ [][NextCalls]_vars

\* ------------------------------------------------------------------------
\* Properties
\* ------------------------------------------------------------------------

\* The rows ColumnRows finds for the column at hand are the rows the scan
\* of the inner loop finds.
ColumnRowsAreScanned ==
  pc = "remap" =>
    LET poly == magics[order[ri]]
        u    == Unit(eth_scale)
    IN  ColumnRows(poly, u, x) = {y \in RowRange(poly, u) : contains(poly, u, x, y)}

Gray == <<128, 128, 128>>

Boosted == <<166, 166, 166>>

\* The pixels on the outlines of the first n regions of the run.
Outlined(n) == UNION {OutlinePoints(magics[order[k]], Unit(eth_scale)) : k \in 1..n}

\* The rows of column c that region k of the run contains, and the columns
\* of the region.
RegionRows(k, c) == ColumnRows(magics[order[k]], Unit(eth_scale), c)

RegionColumns(k) == ColumnRange(magics[order[k]], Unit(eth_scale))

\* Whether (c, d) is in the box tb of the watermark text.
InText(tb, c, d) == tb[1] <= c /\ c <= tb[3] /\ tb[2] <= d /\ d <= tb[4]

\* The written pixels of buf that lie in no region, on no outline and
\* outside the watermark text all hold the pixel v.
ElsewhereAll(buf, v) ==
  LET lined == Outlined(Len(order))
      tb    == TextBox(width, height)
  IN  \A c \in DOMAIN buf :
        LET inside == UNION {RegionRows(k, c) : k \in 1..Len(order)}
        IN  \A s \in buf[c] :
              \/ s[3] = v
              \/ \A d \in s[1]..s[2] :
                   d \in inside \/ <<c, d>> \in lined \/ InText(tb, c, d)

\* C1 (as amended).  On the 1920 x 1266 mid-gray image at scale 1 the saved
\* image is as follows.  A pixel on an outline is (180, 180, 180), whether
\* it is strictly inside a region or not.  Any other pixel strictly inside a
\* region holds the brightened value of what its mirrored source pixel held
\* when it was read: 166 if the source was still as loaded, 215 if an
\* earlier region's remap had written it, 234 if an earlier region's outline
\* had been drawn on it.  Any other pixel outside the watermark text is 128,
\* and the text meets no region and no outline.
C1_EndToEnd ==
  pc = "done" =>
    LET lined == Outlined(Len(order))
        tb    == TextBox(width, height)
    IN  /\ \A k \in 1..Len(order) :
             LET t       == Offset(order[k])
                 earlier == Outlined(k - 1)
             IN  \A c \in RegionColumns(k) :
                   LET col  == Column(output, c)
                       from == UNION {RegionRows(j, c + t[1]) : j \in 1..(k - 1)}
                   IN  \A d \in RegionRows(k, c) :
                         /\ ~InText(tb, c, d)
                         /\ ReadColumn(col, c, d) =
                              IF <<c, d>> \in lined THEN OutlinePixel
                              ELSE IF <<c + t[1], d + t[2]>> \in earlier THEN filter(OutlinePixel)
                              ELSE IF (d + t[2]) \in from THEN filter(Boosted)
                              ELSE Boosted
        /\ \A p \in lined : ~InText(tb, p[1], p[2]) /\ Read(output, p[1], p[2]) = OutlinePixel
        /\ ElsewhereAll(output, Gray)
        /\ filter(Gray) = Boosted
        /\ Read(output, 754, 599) = filter(Boosted)
        /\ Read(output, 755, 600) = filter(OutlinePixel)

\* The saved image of the end-to-end scenario, with an outline pixel and a
\* brightened pixel of the top-left region in it.
C1_Witness ==
  /\ pc = "done"
  /\ <<width, height>> = FullSize
  /\ eth_scale = <<1, 1>>
  /\ Read(output, 900, 400) = Boosted
  /\ Read(output, 960, 400) = OutlinePixel
  /\ Read(output, 100, 100) = Gray

\* C1 (as the specification states it): every pixel strictly inside a region
\* ends as 166 and every pixel outside all four regions is still 128.  The
\* pixels under the watermark text are left out of the comparison.
C1_AsStated ==
  pc = "done" =>
    /\ \A k \in 1..Len(order) : \A c \in RegionColumns(k) : \A d \in RegionRows(k, c) :
         Read(output, c, d) = Boosted
    /\ \A c \in DOMAIN output :
         LET inside == UNION {RegionRows(k, c) : k \in 1..Len(order)}
         IN  \A s \in output[c] : \A d \in s[1]..s[2] :
               d \in inside \/ InText(TextBox(width, height), c, d) \/ s[3] = Gray

\* C2 (as amended).  filter maps every channel value v of 0..255 to
\* min(floor(v * 1.3), 255), each channel on its own: the result is the
\* greatest integer not above 1.3 * v, capped at 255.  It is 255 exactly for
\* v >= 197 (filter(196) = 254), and filter(0) = 0.
C2_FilterTruncates ==
  (pc = "returned" /\ call[1] = "filter") =>
    /\ Len(ret) = Len(call[2])
    /\ \A i \in 1..Len(ret) :
         LET v == call[2][i]
             b == ret[i]
         IN  /\ b \in 0..MaxChannel
             /\ 10 * b <= 13 * v
             /\ b = MaxChannel \/ 13 * v < 10 * (b + 1)
             /\ b = MaxChannel <=> v >= 197
             /\ v = 0 => b = 0

\* filter has returned for a pixel whose first channel is 196.
C2_Witness ==
  /\ pc = "returned"
  /\ call[1] = "filter"
  /\ call[2][1] = 196
  /\ ret[1] = 254

\* C2 (as the specification states it): filter maps v to
\* min(round(v * 1.3), 255), so that filter(v) = 255 for every v >= 196.
C2_FilterRounds ==
  (pc = "returned" /\ call[1] = "filter") =>
    \A i \in 1..Len(ret) :
      LET v == call[2][i]
          n == RoundDiv(13 * v, 10)
      IN  /\ ret[i] = IF n > MaxChannel THEN MaxChannel ELSE n
          /\ v >= 196 => ret[i] = MaxChannel
          /\ v = 0 => ret[i] = 0

\* What the program prints for a handled error.
UsageText ==
  << <<"print", "error: missing arguments">>,
     <<"print", "usage: ./main.py INPUT_IMAGE OUTPUT_IMAGE [ETH_SCALE]">> >>

NoInputText == << <<"print", "error: cannot open input file">> >>

\* C3.  With fewer than two arguments after the program name the run prints
\* the usage text and exits with status 0 without ever touching the input
\* path.  With an input path that is no existing file the run prints the
\* error and exits with status 0; the path is tested, but no image is
\* decoded, nothing is processed and no output is written.  No other run
\* ends through sys.exit.
C3_HandledErrorsStopTheRun ==
  /\ argc < 3 =>
       /\ pc \in {"start", "exited"}
       /\ events = << >>
       /\ pc = "exited" => stdout = UsageText /\ exit_code = 0
  /\ (argc >= 3 /\ ~file.exists) =>
       /\ pc \in {"start", "exited"}
       /\ \A i \in 1..Len(events) : events[i] = <<"isfile", "input">>
       /\ pc = "exited" => stdout = NoInputText /\ exit_code = 0
  /\ pc \in {"start", "exited"} =>
       /\ box = <<0, 0, 0, 0>>
       /\ pixels = NoPixels
       /\ composite = NoPixels
       /\ output = NoPixels
  /\ pc = "exited" => argc < 3 \/ ~file.exists

\* A run that has ended on a missing input file.
C3_Witness ==
  /\ pc = "exited"
  /\ argc >= 3
  /\ ~file.exists
  /\ stdout = NoInputText
  /\ events = << <<"isfile", "input">> >>

\* C4.  Once load_image has returned, the crop box is centred in the input
\* (the left and the right margin, and the top and the bottom margin, differ
\* by at most one pixel), the side that is not cut is kept whole, and the
\* width and height of the result are in the ratio 1920:1266 to within one
\* pixel.
C4_CentredCrop ==
  pc = "scale" =>
    LET w    == file.size[1]
        h    == file.size[2]
        wide == w * RatioH > h * RatioW
    IN  /\ Abs(box[1] - (w - box[3])) <= 1
        /\ Abs(box[2] - (h - box[4])) <= 1
        /\ wide => height = h
        /\ ~wide => width = w
        /\ Abs(width * RatioH - height * RatioW) <= RatioW

\* C5.  mirrors pairs the four regions, which are the regions a run
\* visits: it maps every one of them to another region, and that one back
\* to the first.
C5_MirrorsPairsRegions ==
  /\ DOMAIN mirrors = Regions
  /\ {order[k] : k \in 1..Len(order)} = Regions
  /\ \A k \in 1..Len(order) :
       /\ mirrors[order[k]] \in Regions
       /\ mirrors[mirrors[order[k]]] = order[k]
       /\ mirrors[order[k]] # order[k]

\* The remap of the bottom-left region is under way, with the offset to its
\* partner, the top-right region.
C5_Witness ==
  /\ pc = "remap"
  /\ order[ri] = "bottom-left"
  /\ mirrors[order[ri]] = "top-right"
  /\ Offset(order[ri]) = Trans(magics["bottom-left"], magics["top-right"], Unit(eth_scale))
  /\ pixels # NoPixels

\* C6.  At scale 1 scale returns every relative vertex (x, y) as
\* (x * width, y * height); the vertex (0.5, 0.183) of the top-left region
\* at 1920 x 1266 becomes (960, 231.678).  Co-ordinates are in thousandths
\* of a pixel.
C6_ScaleOneKeepsShape ==
  (pc = "returned" /\ call[1] = "scale" /\ call[3] = <<1, 1>>) =>
    LET magic == RelMagics[call[2]]
        w     == call[4][1]
        h     == call[4][2]
    IN  /\ Unit(call[3]) = Milli
        /\ Len(ret) = Len(magic)
        /\ \A i \in 1..Len(magic) : ret[i] = <<magic[i][1] * w, magic[i][2] * h>>
        /\ (call[2] = "top-left" /\ call[4] = FullSize) => ret[1] = <<960000, 231678>>

\* scale has returned for the top-left region at 1920 x 1266 and scale 1.
C6_Witness ==
  /\ pc = "returned"
  /\ call = <<"scale", "top-left", <<1, 1>>, FullSize>>
  /\ ret[1] = <<960000, 231678>>
  /\ ret[2] = <<754560, 563370>>

\* C7.  No remap reads a source pixel that the remap of an earlier region
\* of the run has written, and when the loop over the regions has ended the
\* pixels of every region are the brightened pixels of the loaded image at
\* their sources, but for those an outline has been drawn on.
C7_InPlaceIsSnapshot ==
  /\ stale = {}
  /\ pc = "watermark" =>
       \A k \in 1..Len(order) :
         LET t == Offset(order[k])
         IN  \A c \in RegionColumns(k) : \A d \in RegionRows(k, c) :
               Read(pixels, c, d) \in {OutlinePixel, filter(LoadedPixel(c + t[1], d + t[2]))}

\* C8.  Whatever the order of the regions, the loop over the regions leaves
\* the image that it leaves in the order of the program.
C8_OrderIndependent ==
  pc = "watermark" => SameImage(pixels, RemapLoop(NoPixels, RegionOrder, 1))

\* C9.  Every pixel access of the remap loop is inside the image: none has
\* wrapped around or failed, and none of the column at hand will.
C9_AccessesInside ==
  /\ ~oob
  /\ pc = "remap" =>
       ~ColumnLeavesImage(Offset(order[ri]), x, ColumnRows(magics[order[ri]], Unit(eth_scale), x))

\* The events of a complete run, in their order.
Canonical ==
  << <<"isfile", "input">>, <<"open", "input">>,
     <<"remap", "top-left">>, <<"outline", "top-left">>,
     <<"remap", "top-right">>, <<"outline", "top-right">>,
     <<"remap", "bottom-left">>, <<"outline", "bottom-left">>,
     <<"remap", "bottom-right">>, <<"outline", "bottom-right">>,
     <<"watermark", "font">>, <<"save", "output">> >>

IsPrefix(s1, s2) == Len(s1) <= Len(s2) /\ \A i \in 1..Len(s1) : s1[i] = s2[i]

\* Whether the remap has written every pixel of region r.
AllRemapped(r) ==
  LET u == Unit(eth_scale)
  IN  \A c \in ColumnRange(magics[r], u) : \A d \in ColumnRows(magics[r], u, c) :
        \E s \in Column(pixels, WrapIndex(c, width)) : Covers(s, WrapIndex(d, height))

\* C10.  The steps of a run happen in one order: the regions top-left,
\* top-right, bottom-left, bottom-right, each remapped and then outlined
\* before the next is begun, then the watermark, then the save.  An outline
\* is drawn only when every pixel of its region has been remapped.  The
\* output path is touched by the save alone, the last step: a run whose
\* output path cannot be written fails there, with all the processing done.
C10_StepsInOrder ==
  /\ IsPrefix(events, Canonical)
  /\ pc = "outline" => AllRemapped(order[ri]) /\ events[Len(events)] = <<"remap", order[ri]>>
  /\ pc = "watermark" => events[Len(events)] = <<"outline", "bottom-right">>
  /\ composite # NoPixels => \A r \in Regions : AllRemapped(r)
  /\ pc = "save" => events[Len(events)] = <<"watermark", "font">> /\ composite # NoPixels
  /\ output # NoPixels <=> pc = "done"
  /\ pc = "done" => events = Canonical /\ writable /\ exit_code = 0
  /\ (pc = "failed" /\ events = Canonical) => ~writable /\ composite # NoPixels
  /\ (pc = "failed" /\ ~oob /\ file.decodable /\ FontSize(width) >= 1) =>
       ~writable /\ events = Canonical

\* A run that has failed at the save, its output path not writable.
C10_Witness ==
  /\ pc = "failed"
  /\ ~writable
  /\ events = Canonical
  /\ composite # NoPixels
  /\ output = NoPixels

=============================================================================
